---- MODULE Spec2Model ----
(***************************************************************************)
(* SrvcTame ("Process Tamer"): a model of srvctame.c, the daemon that      *)
(* re-reads SrvcTame.ini when its CRC-32 changes and lowers the priority   *)
(* of every live process named by a rule.                                  *)
(*                                                                         *)
(* 32-bit registers are sequences of 32 bits, most significant bit first,  *)
(* because a uint32_t does not fit TLC's integers; a stored digest *)
(* is the pair <<high 16 bits, low 16 bits>>.  Strings are sequences of    *)
(* character codes.                                                        *)
(***************************************************************************)
EXTENDS Integers, Sequences, FiniteSets, TLC

(***************************************************************************)
(* Bounds of the model.                                                    *)
(***************************************************************************)
\* Highest Process{N}_Name index a configuration file of the model holds.
MaxIndex == 2
\* Number of process ids of the host.
MaxPid == 2
\* The longest byte sequence given to Tamer_CRC2 on its own, the test
\* string "123456789" apart.
MaxLen == 3

(***************************************************************************)
(* Program constants.                                                      *)
(***************************************************************************)
SRVC_TAME_INTERVAL == 10000
SRVC_TAME_SERVICE_DISPLAY_NAME ==
  <<80, 114, 111, 99, 101, 115, 115, 32, 84, 97, 109, 101, 114>>
SRVC_TAME_SERVICE_DESCRIPTION ==
  <<87, 105, 110, 100, 111, 119, 115, 32, 112, 114, 111, 99, 101, 115, 115, 32,
    116, 97, 109, 105, 110, 103, 32, 115, 101, 114, 118, 105, 99, 101>>
IDLE_PRIORITY_CLASS == 64
NORMAL_PRIORITY_CLASS == 32

(***************************************************************************)
(* Tamer_CRC2: bitwise CRC-32, reflected polynomial 0xEDB88320.            *)
(* A uint32_t register is the sequence of its 32 bits, most significant    *)
(* first: TLC's integers are too narrow to hold it.  A digest is   *)
(* kept as the pair <<high 16 bits, low 16 bits>>.                         *)
(***************************************************************************)
RECURSIVE BitsOf(_, _)
\* The low n bits of the natural number v, most significant first.
BitsOf(v, n) == IF n = 0 THEN <<>> ELSE Append(BitsOf(v \div 2, n - 1), v % 2)

RECURSIVE ValueOf(_)
\* The natural number a bit sequence denotes.
ValueOf(bits) ==
  IF bits = <<>> THEN 0
  ELSE 2 * ValueOf(SubSeq(bits, 1, Len(bits) - 1)) + bits[Len(bits)]

\* The register whose high half is hi and whose low half is lo.
Reg32(hi, lo) == BitsOf(hi, 16) \o BitsOf(lo, 16)

\* A register as the pair <<high half, low half>>.
Halves(reg) == << ValueOf(SubSeq(reg, 1, 16)), ValueOf(SubSeq(reg, 17, 32)) >>

\* 0xFFFFFFFF and 0xEDB88320
AllOnes == Reg32(65535, 65535)
Poly == Reg32(60856, 33568)

\* a ^ b (SubSeq makes TLC compute the 32 bits at once)
Xor32(a, b) == SubSeq([i \in 1..32 |-> (a[i] + b[i]) % 2], 1, 32)
\* ~a
Not32(a) == SubSeq([i \in 1..32 |-> 1 - a[i]], 1, 32)
\* a >> 1, a zero entering at the top.
Shr1(a) == <<0>> \o SubSeq(a, 1, 31)
\* A byte widened to 32 bits (crc ^ byte promotes the uint8_t).
Widen(byte) == Reg32(0, byte)

\* One turn of the inner loop:
\*   mask = (crc & 1) ? 0xFFFFFFFF : 0;  crc = (crc >> 1) ^ (0xEDB88320 & mask)
CrcBitStep(crc) == IF crc[32] = 1 THEN Xor32(Shr1(crc), Poly) ELSE Shr1(crc)

RECURSIVE CrcBits(_, _)
\* The register after n turns of the inner loop (j = 7 down to 0 makes 8).
CrcBits(crc, n) == IF n = 0 THEN crc ELSE CrcBitStep(CrcBits(crc, n - 1))

RECURSIVE CrcBytes(_, _, _, _)
\* The outer loop over data[lo..hi], entered with the register crc: each
\* byte is xored into the register before the eight turns.  The range is
\* taken in two halves, and the test of Len(left) makes TLC finish
\* the first half before the second, so that long files do not nest deeply.
CrcBytes(crc, data, lo, hi) ==
  IF lo > hi THEN crc
  ELSE IF lo = hi THEN CrcBits(Xor32(crc, Widen(data[lo])), 8)
  ELSE LET mid == (lo + hi) \div 2
           left == CrcBytes(crc, data, lo, mid)
       IN  IF Len(left) = 32 THEN CrcBytes(left, data, mid + 1, hi) ELSE left

\* The digest 0, Tamer_GetFileCRC's error value.
ZeroCrc == << 0, 0 >>

\* A digest without the final complement: what C17 rules out.
Tamer_CRC2_NoComplement(data) == Halves(CrcBytes(AllOnes, data, 1, Len(data)))

\* uint32_t Tamer_CRC2(const uint8_t *data, size_t length): the register
\* starts at 0xFFFFFFFF and is complemented at the end.
Tamer_CRC2(data) == Halves(Not32(CrcBytes(AllOnes, data, 1, Len(data))))

(***************************************************************************)
(* Strings and the configuration file.                                     *)
(***************************************************************************)
\* tolower() on a character code.
ToLower(c) == IF c >= 65 /\ c <= 90 THEN c + 32 ELSE c

RECURSIVE StricmpFrom(_, _, _)
\* _stricmp from position i on: 0 when the strings are equal ignoring case,
\* else the difference of the first pair of lowered characters that differ
\* (the terminating NUL counts as character 0).
StricmpFrom(a, b, i) ==
  LET ca == IF i <= Len(a) THEN ToLower(a[i]) ELSE 0
      cb == IF i <= Len(b) THEN ToLower(b[i]) ELSE 0
  IN  IF ca # cb THEN ca - cb
      ELSE IF ca = 0 THEN 0
      ELSE StricmpFrom(a, b, i + 1)

Stricmp(a, b) == StricmpFrom(a, b, 1)

\* Image names and rule names of the model: "fo", "FO", "f", "b".
NameFo == <<102, 111>>
NameFO == <<70, 79>>
NameF == <<102>>
NameB == <<98>>
\* An absent string key reads as the empty string, an absent integer key is
\* marked by NoInt.
NoString == <<>>
NoInt == -1

\* The [Processes] keys of a file: Process{N}_Name and Process{N}_Prio for
\* N in 1..MaxIndex.
RuleNames == {NoString, NameFo, NameB}
RulePrios == {NoInt, NORMAL_PRIORITY_CLASS, IDLE_PRIORITY_CLASS}
DisplayNames == {NoString, <<73, 80>>}
Descriptions == {NoString, <<73, 115>>}
Intervals == {NoInt, 1000}

\* Every content of SrvcTame.ini the model knows, as the profile API sees it.
AllIni ==
  [ disp : DisplayNames, desc : Descriptions, interval : Intervals,
    name : [1..MaxIndex -> RuleNames], prio : [1..MaxIndex -> RulePrios] ]

\* The file without any key: zero bytes long.
EmptyIni ==
  [ disp |-> NoString, desc |-> NoString, interval |-> NoInt,
    name |-> [i \in 1..MaxIndex |-> NoString], prio |-> [i \in 1..MaxIndex |-> NoInt] ]

RECURSIVE Digits(_)
\* The decimal digits of a natural number, as character codes.
Digits(n) == IF n < 10 THEN <<48 + n>> ELSE Digits(n \div 10) \o <<48 + (n % 10)>>

\* One line "key=value\n" of the file, the key abbreviated to the codes in
\* key; an absent key has no line.
StringLine(key, v) == IF v = NoString THEN <<>> ELSE key \o <<61>> \o v \o <<10>>
IntLine(key, v) == IF v = NoInt THEN <<>> ELSE key \o <<61>> \o Digits(v) \o <<10>>

RECURSIVE ProcessLines(_, _)
\* The lines of Process{i}_Name, Process{i}_Prio, ... up to MaxIndex.
ProcessLines(ini, i) ==
  IF i > MaxIndex THEN <<>>
  ELSE StringLine(<<78, 48 + i>>, ini.name[i]) \o IntLine(<<80, 48 + i>>, ini.prio[i])
       \o ProcessLines(ini, i + 1)

\* The raw bytes of the file, which fread hands to Tamer_CRC2.
FileBytes(ini) ==
  StringLine(<<68>>, ini.disp) \o StringLine(<<83>>, ini.desc)
  \o IntLine(<<73>>, ini.interval) \o ProcessLines(ini, 1)

\* GetPrivateProfileString: the value of the key, the default when the file
\* cannot be opened or the key is absent.
GetPrivateProfileString(f, v, default) ==
  IF f.readable /\ v # NoString THEN v ELSE default

\* A lookup that would give 0 for an absent integer key whatever default it
\* was passed: what C21 rules out.
GetPrivateProfileInt_NoDefault(f, v, default) ==
  IF f.readable /\ v # NoInt THEN v ELSE 0

\* GetPrivateProfileInt: likewise for an integer key.
GetPrivateProfileInt(f, v, default) ==
  IF f.readable /\ v # NoInt THEN v ELSE default

\* The contents the operator gives the file while the daemon runs: settings
\* are present exactly when rule 1 names "fo", a rule naming "fo" carries
\* priority 32 and any other rule carries none.
Sources ==
  {i \in AllIni :
     /\ (i.disp # NoString) = (i.name[1] = NameFo)
     /\ (i.desc # NoString) = (i.name[1] = NameFo)
     /\ (i.interval # NoInt) = (i.name[1] = NameFo)
     /\ \A n \in 1..MaxIndex :
          i.prio[n] = IF i.name[n] = NameFo THEN NORMAL_PRIORITY_CLASS ELSE NoInt}

\* Tamer_CRC2 of the bytes of each of these contents, tabulated (@@ makes
\* TLC compute the table once instead of at every call).
SourceCrc == [i \in Sources |-> Tamer_CRC2(FileBytes(i))] @@ <<>>

\* crc32 = Tamer_CRC2(buffer, fileSize)
BufferCrc(ini) ==
  IF ini \in DOMAIN SourceCrc THEN SourceCrc[ini] ELSE Tamer_CRC2(FileBytes(ini))

\* static uint32_t Tamer_GetFileCRC(const char *fileName): 0 when fopen
\* fails, when the buffer cannot be allocated or the read comes up short
\* (io = FALSE), else the CRC-32 of the bytes.
Tamer_GetFileCRC(f, io) ==
  IF ~f.readable THEN ZeroCrc
  ELSE IF ~io THEN ZeroCrc
  ELSE BufferCrc(f.ini)

(***************************************************************************)
(* Tamer_Config and Tamer_ReadConfig.                                      *)
(***************************************************************************)
\* gTamer.config == NULL: nothing allocated yet.
NullConfig ==
  [ allocated |-> FALSE, serviceDispalyName |-> NoString, serviceDescription |-> NoString,
    filePath |-> "", interval |-> 0, crc32 |-> ZeroCrc, procList |-> <<>> ]

\* The Tamer_Config right after malloc and memset(0).
ZeroConfig == [NullConfig EXCEPT !.allocated = TRUE]

\* snprintf(filePath, "%s\\%s", directory, SRVC_TAME_INI_FILE): the Windows
\* directory in service mode, the current directory otherwise.
IniPath(mode) == IF mode THEN "windows\\SrvcTame.ini" ELSE "cwd\\SrvcTame.ini"

\* What the environment decides during one call of Tamer_ReadConfig:
\*   cfgAlloc  malloc(sizeof(Tamer_Config)) succeeds
\*   pathOK    GetWindowsDirectory / GetCurrentDirectory succeeds
\*   io        Tamer_GetFileCRC gets its buffer and reads the whole file
\*   nodes     how many malloc(sizeof(Tamer_Proc)) succeed before one fails
\*             (MaxIndex + 1: none fails)
ReadInputs ==
  [ cfgAlloc : BOOLEAN, pathOK : BOOLEAN, io : BOOLEAN, nodes : 0..(MaxIndex + 1) ]

\* GetPrivateProfileString("Processes", "Process{i}_Name", "", ...): no file
\* of the model has a key above MaxIndex.
ProcessName(f, i) ==
  IF i > MaxIndex THEN NoString ELSE GetPrivateProfileString(f, f.ini.name[i], NoString)

\* GetPrivateProfileInt("Processes", "Process{i}_Prio", 0, ...)
ProcessPrio(f, i) ==
  IF i > MaxIndex THEN 0 ELSE GetPrivateProfileInt(f, f.ini.prio[i], 0)

RECURSIVE BuildList_SkipGap(_, _, _, _)
\* A loop that would step over an index without a name and go on to the
\* next one, up to MaxIndex, instead of stopping: what C8 rules out.
BuildList_SkipGap(f, list, processIndex, nodes) ==
  IF nodes = 0 THEN [ list |-> list, oom |-> TRUE ]
  ELSE IF processIndex > MaxIndex THEN [ list |-> list, oom |-> FALSE ]
  ELSE IF Len(ProcessName(f, processIndex)) = 0
  THEN BuildList_SkipGap(f, list, processIndex + 1, nodes)
  ELSE BuildList_SkipGap(f,
                 Append(list, [ procName |-> ProcessName(f, processIndex),
                                priority |-> ProcessPrio(f, processIndex) ]),
                 processIndex + 1, nodes - 1)

RECURSIVE BuildList_Dedup(_, _, _, _)
\* A loop that would drop a rule whose name the list already holds: what
\* C23 rules out.
BuildList_Dedup(f, list, processIndex, nodes) ==
  IF nodes = 0 THEN [ list |-> list, oom |-> TRUE ]
  ELSE IF Len(ProcessName(f, processIndex)) = 0 THEN [ list |-> list, oom |-> FALSE ]
  ELSE IF \E i \in 1..Len(list) : list[i].procName = ProcessName(f, processIndex)
  THEN BuildList_Dedup(f, list, processIndex + 1, nodes - 1)
  ELSE BuildList_Dedup(f,
                 Append(list, [ procName |-> ProcessName(f, processIndex),
                                priority |-> ProcessPrio(f, processIndex) ]),
                 processIndex + 1, nodes - 1)

RECURSIVE BuildList(_, _, _, _)
\* The while (1) loop that builds the list, entered with the list built so
\* far, processIndex and the number of node allocations that still succeed.
\* It ends when malloc returns NULL or Process{processIndex}_Name reads as
\* the empty string.
BuildList(f, list, processIndex, nodes) ==
  IF nodes = 0 THEN [ list |-> list, oom |-> TRUE ]
  ELSE IF Len(ProcessName(f, processIndex)) = 0 THEN [ list |-> list, oom |-> FALSE ]
  ELSE BuildList(f,
                 Append(list, [ procName |-> ProcessName(f, processIndex),
                                priority |-> ProcessPrio(f, processIndex) ]),
                 processIndex + 1, nodes - 1)

\* The result of one call: the new *gTamer.config, the value returned, the
\* local crc32 (ZeroCrc when the call ended before computing it), the exit
\* taken and whether a node allocation failed.
\*   stage: "nomem"  the Tamer_Config could not be allocated
\*          "nopath" the directory lookup failed
\*          "nofile" the digest of the file came out 0
\*          "same"   the digest equals the stored one
\*          "parsed" the digest differs: settings and list were re-read
ReadResult(cfg, ret, crc, stage, oom) ==
  [ config |-> cfg, retVal |-> ret, crc32 |-> crc, stage |-> stage, oom |-> oom ]

\* A parse that would leave the stored digest as it was: what C5 rules out.
Reparse_KeepDigest(cfg, f, crc, nodes) ==
  LET built == BuildList(f, <<>>, 1, nodes)
  IN  ReadResult([ cfg EXCEPT !.procList = built.list ],
                 Len(built.list), crc, "parsed", built.oom)

\* The branch taken when crc32 != gTamer.config->crc32.
Reparse(cfg, f, crc, nodes) ==
  LET built == BuildList(f, <<>>, 1, nodes)
  IN  ReadResult(
        [ cfg EXCEPT
            !.serviceDispalyName =
                GetPrivateProfileString(f, f.ini.disp, SRVC_TAME_SERVICE_DISPLAY_NAME),
            !.serviceDescription =
                GetPrivateProfileString(f, f.ini.desc, SRVC_TAME_SERVICE_DESCRIPTION),
            !.interval = GetPrivateProfileInt(f, f.ini.interval, SRVC_TAME_INTERVAL),
            !.crc32 = crc,
            !.procList = built.list ],
        Len(built.list), crc, "parsed", built.oom)

\* A comparison that would never find the digest unchanged: what C4 rules out.
DigestUnchanged_Never(crc, stored) == crc # crc

\* Whether the stored digest lets the call skip the parse.
DigestUnchanged(crc, stored) == crc = stored

\* A call that would return 0 when it finds the digest unchanged: what C20
\* rules out.
ReadFrom_SameReturnsZero(cfg, f, in) ==
  LET crc == Tamer_GetFileCRC(f, in.io)
  IN  IF crc = ZeroCrc THEN ReadResult(cfg, 0, crc, "nofile", FALSE)
      ELSE IF DigestUnchanged(crc, cfg.crc32)
      THEN ReadResult(cfg, 0, crc, "same", FALSE)
      ELSE Reparse(cfg, f, crc, in.nodes)

\* A call that would compare the digest with the stored one before it
\* tests it for 0: what C18 rules out.
ReadFrom_CompareFirst(cfg, f, in) ==
  LET crc == Tamer_GetFileCRC(f, in.io)
  IN  IF DigestUnchanged(crc, cfg.crc32)
      THEN ReadResult(cfg, Len(cfg.procList), crc, "same", FALSE)
      ELSE IF crc = ZeroCrc THEN ReadResult(cfg, 0, crc, "nofile", FALSE)
      ELSE Reparse(cfg, f, crc, in.nodes)

\* A call that would not give up on a digest of 0: what C2 rules out.
ReadFrom_NoZeroCheck(cfg, f, in) ==
  LET crc == Tamer_GetFileCRC(f, in.io)
  IN  IF DigestUnchanged(crc, cfg.crc32)
      THEN ReadResult(cfg, Len(cfg.procList), crc, "same", FALSE)
      ELSE Reparse(cfg, f, crc, in.nodes)

\* Tamer_ReadConfig from the digest check on, the path being resolved.
ReadFrom(cfg, f, in) ==
  LET crc == Tamer_GetFileCRC(f, in.io)
  IN  IF crc = ZeroCrc THEN ReadResult(cfg, 0, crc, "nofile", FALSE)
      ELSE IF DigestUnchanged(crc, cfg.crc32)
      THEN ReadResult(cfg, Len(cfg.procList), crc, "same", FALSE)
      ELSE Reparse(cfg, f, crc, in.nodes)

\* Tamer_ReadConfig reads the file several times: Tamer_GetFileCRC opens it,
\* reads it whole and closes it, then every GetPrivateProfileString /
\* GetPrivateProfileInt call reads it again, and nothing locks the file
\* between these reads.
\* Tamer_ReadConfig from the digest check on, the file holding f when
\* Tamer_GetFileCRC reads it and f2 when the profile calls read it.
ReadFromEdited(cfg, f, f2, in) ==
  LET crc == Tamer_GetFileCRC(f, in.io)
  IN  IF crc = ZeroCrc THEN ReadResult(cfg, 0, crc, "nofile", FALSE)
      ELSE IF DigestUnchanged(crc, cfg.crc32)
      THEN ReadResult(cfg, Len(cfg.procList), crc, "same", FALSE)
      ELSE Reparse(cfg, f2, crc, in.nodes)

\* A call that would return 1 when the Tamer_Config cannot be allocated,
\* so that main would go on without one: what C26 rules out.
Tamer_ReadConfig_NomemReturnsOne(cfg, mode, f, in) ==
  IF ~cfg.allocated /\ ~in.cfgAlloc
  THEN ReadResult(cfg, 1, ZeroCrc, "nomem", FALSE)
  ELSE LET c1 == IF cfg.allocated THEN cfg ELSE ZeroConfig
       IN  IF c1.filePath = "" /\ ~in.pathOK
           THEN ReadResult(c1, 0, ZeroCrc, "nopath", FALSE)
           ELSE ReadFrom(IF c1.filePath = "" THEN [c1 EXCEPT !.filePath = IniPath(mode)]
                         ELSE c1,
                         f, in)

\* static int Tamer_ReadConfig(void)
Tamer_ReadConfig(cfg, mode, f, in) ==
  IF ~cfg.allocated /\ ~in.cfgAlloc
  THEN ReadResult(cfg, 0, ZeroCrc, "nomem", FALSE)
  ELSE LET c1 == IF cfg.allocated THEN cfg ELSE ZeroConfig
       IN  IF c1.filePath = "" /\ ~in.pathOK
           THEN ReadResult(c1, 0, ZeroCrc, "nopath", FALSE)
           ELSE ReadFrom(IF c1.filePath = "" THEN [c1 EXCEPT !.filePath = IniPath(mode)]
                         ELSE c1,
                         f, in)

(***************************************************************************)
(* The nodes of the list on the heap: what the malloc and free calls of    *)
(* Tamer_ReadConfig do to the Tamer_Proc blocks.                           *)
(***************************************************************************)
\* The addresses malloc(sizeof(Tamer_Proc)) can return: a parse holds at
\* most MaxIndex + 1 blocks at once, the last being the one it frees when
\* it finds no name.
Addrs == 1..(MaxIndex + 1)

\* The order in which malloc hands out the addresses during one call.
AddrOrders ==
  {a \in [1..(MaxIndex + 1) -> Addrs] : \A i, j \in 1..(MaxIndex + 1) : a[i] = a[j] => i = j}

\* The allocator that always returns the lowest address.
FirstFit == [i \in 1..(MaxIndex + 1) |-> i]

\* The heap as far as the list goes:
\*   live   the blocks malloc returned that free has not been given since
\*   list   the addresses of the nodes of gTamer.config->procList, in order
\*   freed  the addresses given to free during the last call, in order
\*   fresh  the addresses malloc returned during the last call, in order
\*   bad    free has been given a block that was not live
EmptyHeap ==
  [ live |-> {}, list |-> <<>>, freed |-> <<>>, fresh |-> <<>>, bad |-> FALSE ]

\* free(el)
HeapFree(h, a) ==
  [h EXCEPT !.live = @ \ {a}, !.freed = Append(@, a), !.bad = @ \/ a \notin h.live]

\* el = (Tamer_Proc *) malloc(sizeof(Tamer_Proc)), returning a
HeapMalloc(h, a) == [h EXCEPT !.live = @ \cup {a}, !.fresh = Append(@, a)]

RECURSIVE ReleaseNodes(_, _)
\* LL_FOREACH_SAFE(gTamer.config->procList, el, tmp) { free(el); } from the
\* node of index i on.
ReleaseNodes(h, i) ==
  IF i > Len(h.list) THEN h ELSE ReleaseNodes(HeapFree(h, h.list[i]), i + 1)

\* A release that would leave procList pointing at the nodes it has freed:
\* what C25 rules out.
ReleaseProcList_KeepHead(h) == ReleaseNodes(h, 1)

\* The release of the list: every node is freed, then procList = NULL.
ReleaseProcList(h) == [ReleaseNodes(h, 1) EXCEPT !.list = <<>>]

RECURSIVE BuildNodes(_, _, _, _, _)
\* The blocks of the while (1) loop that builds the list: a node is
\* allocated before its name is read, freed at once when there is no name,
\* appended otherwise.  addrs[i] is what the i-th malloc returns.
BuildNodes(f, h, processIndex, nodes, addrs) ==
  IF nodes = 0 THEN h
  ELSE LET a == addrs[processIndex]
           h1 == HeapMalloc(h, a)
       IN  IF Len(ProcessName(f, processIndex)) = 0 THEN HeapFree(h1, a)
           ELSE BuildNodes(f, [h1 EXCEPT !.list = Append(@, a)],
                           processIndex + 1, nodes - 1, addrs)

\* The heap after a call of Tamer_ReadConfig that took the exit stage: only
\* a parse frees or allocates nodes.
HeapAfter(h, stage, f, nodes, addrs) ==
  LET h0 == [h EXCEPT !.freed = <<>>, !.fresh = <<>>]
  IN  IF stage = "parsed" THEN BuildNodes(f, ReleaseProcList(h0), 1, nodes, addrs)
      ELSE h0

\* The heap as the daemon leaves it: which blocks a call freed and
\* allocated is recorded only where Tamer_ReadConfig is examined on its own.
HeapForget(h) == [h EXCEPT !.freed = <<>>, !.fresh = <<>>]

(***************************************************************************)
(* The process table and Tamer_SetProcessPriority.                         *)
(***************************************************************************)
Pids == 1..MaxPid

\* A free process id.
DeadProc == [ alive |-> FALSE, name |-> NoString, prio |-> 0, access |-> "ok" ]

\* The processes that can start: an image name, and what the daemon may do
\* to the process ("ok": open it and set its priority, "noopen": OpenProcess
\* fails, "noset": it opens but SetPriorityClass fails).
ProcKinds ==
  { [ name |-> NameFO, access |-> "ok" ], [ name |-> NameFO, access |-> "noopen" ],
    [ name |-> NameFO, access |-> "noset" ], [ name |-> NameF, access |-> "ok" ] }

\* CreateToolhelp32Snapshot / Process32First / Process32Next: the ids of the
\* live processes.
Snapshot(table) == {p \in Pids : table[p].alive}

\* A test that would compare the first characters only: what C7 rules out.
Matches_FirstChar(exeFile, procName) ==
  Stricmp(SubSeq(exeFile, 1, 1), SubSeq(procName, 1, 1)) = 0

\* The test of the walk: _stricmp(pEntry.szExeFile, proc->procName) == 0
Matches(exeFile, procName) == Stricmp(exeFile, procName) = 0

\* A walk that would set the priority whatever it is now: what C9 rules out.
NeedsSet_Always(prio) == prio = prio

\* if ( GetPriorityClass(hProcess) != IDLE_PRIORITY_CLASS )
NeedsSet(prio) == prio # IDLE_PRIORITY_CLASS

\* A walk that would end at the first matching entry it cannot open: what
\* C11 rules out.
Opened_StopAtFailure(proc, table, gone) ==
  {p \in Snapshot(table) :
     /\ Matches(table[p].name, proc.procName)
     /\ \A q \in Snapshot(table) :
          (q <= p /\ Matches(table[q].name, proc.procName))
            => (q \notin gone /\ table[q].access # "noopen")}

\* The entries of the snapshot the walk opens: the name matches, the process
\* has not exited since the snapshot (gone) and OpenProcess succeeds.
Opened(proc, table, gone) ==
  {p \in Snapshot(table) :
     /\ Matches(table[p].name, proc.procName)
     /\ p \notin gone
     /\ table[p].access # "noopen"}

\* The processes SetPriorityClass is called on.
SetCalls(proc, table, gone) == {p \in Opened(proc, table, gone) : NeedsSet(table[p].prio)}

\* static void Tamer_SetProcessPriority(Tamer_Proc *proc): the table after
\* the walk.  SetPriorityClass(hProcess, IDLE_PRIORITY_CLASS) takes effect
\* unless the process refuses it.
Tamer_SetProcessPriority(proc, table, gone) ==
  [p \in Pids |->
     IF p \in gone THEN DeadProc
     ELSE IF p \in SetCalls(proc, table, gone) /\ table[p].access = "ok"
     THEN [table[p] EXCEPT !.prio = IDLE_PRIORITY_CLASS]
     ELSE table[p]]

(***************************************************************************)
(* The state.                                                              *)
(***************************************************************************)
VARIABLES
  pc,           \* where the daemon is: "main", "svc", "init", "top", "process",
                \* "enforce", "sleep", "exit"
  serviceMode,  \* gTamer.serviceMode
  status,       \* gTamer.ServiceStatus.dwCurrentState
  registered,   \* Tamer_ServiceControl is registered (gTamer.hStatus != 0)
  config,       \* *gTamer.config, NullConfig while gTamer.config == NULL
  el,           \* LL_FOREACH cursor of Tamer_ServiceProcess: index into procList
  file,         \* SrvcTame.ini: whether it can be opened, and its content
  procs,        \* the host's process table
  retVal,       \* locals of the last Tamer_ReadConfig call, until the cycle
  crc32,        \*   that made it goes to sleep
  stage,
  oom,
  snapshots,    \* snapshots taken by the enforcement pass of this cycle
  lastSet,      \* processes SetPriorityClass was called on in the last walk
  late,         \* processes started since the first snapshot of this pass
  sleepMs,      \* the argument of the last Sleep call of the loop (0: none yet
                \*   in this cycle)
  buffer,       \* Tamer_GetFileCRC's buffer while it computes (empty once freed)
  quiet,        \* 0: the process table or the rule list changed since the
                \*    last pass began; 1: a pass began and nothing changed
                \*    since; 2: a whole pass ran and nothing changed since it began
  heap          \* the Tamer_Proc blocks of the heap

vars ==
  << pc, serviceMode, status, registered, config, el, file, procs,
     retVal, crc32, stage, oom, snapshots, lastSet, late, sleepMs, buffer, quiet,
     heap >>

\* The states of the file: missing or locked (fopen fails), or readable with
\* one of the contents.
Files ==
  { [ readable |-> FALSE, ini |-> EmptyIni ] } \cup [ readable : {TRUE}, ini : Sources ]

\* The processes already running when the daemon starts: none, or a "FO"
\* under id 1 and, when there is a second id, an "f" under id 2.
BootTable ==
  [p \in Pids |->
     IF p = 1 THEN [ alive |-> TRUE, name |-> NameFO, prio |-> NORMAL_PRIORITY_CLASS,
                     access |-> "ok" ]
     ELSE IF p = 2 THEN [ alive |-> TRUE, name |-> NameF, prio |-> NORMAL_PRIORITY_CLASS,
                          access |-> "ok" ]
     ELSE DeadProc]


\* gTamer = {0}; the daemon is built for either mode (SRVC_TAME_RUN_AS_SERVICE).
Init ==
  /\ pc = "main"
  /\ serviceMode \in BOOLEAN
  /\ status = "ZERO"
  /\ registered = FALSE
  /\ config = NullConfig
  /\ el = 0
  /\ file \in Files
  /\ procs \in {[p \in Pids |-> DeadProc], BootTable}
  /\ retVal = 0 /\ crc32 = ZeroCrc /\ stage = "none" /\ oom = FALSE
  /\ snapshots = 0 /\ lastSet = {} /\ late = {} /\ quiet = 0
  /\ sleepMs = 0
  /\ buffer = <<>>
  /\ heap = EmptyHeap

\* The locals of the Tamer_ReadConfig call that returned r.
ReadLocals(r) ==
  /\ retVal' = r.retVal
  /\ crc32' = r.crc32
  /\ stage' = r.stage
  /\ oom' = r.oom

(***************************************************************************)
(* The daemon.                                                             *)
(***************************************************************************)
\* main(): the first Tamer_ReadConfig; EXIT_FAILURE when it returns 0; with
\* one argument (argc == 2) install or uninstall and return; else the loop
\* of the mode.
Main ==
  /\ pc = "main"
  /\ \E in \in ReadInputs, argc2 \in BOOLEAN :
       LET r == Tamer_ReadConfig(config, serviceMode, file, in)
       IN  /\ config' = r.config
           /\ ReadLocals(r)
           /\ heap' = HeapForget(HeapAfter(heap, r.stage, file, in.nodes, FirstFit))
           /\ pc' = IF r.retVal = 0 \/ argc2 THEN "exit"
                    ELSE IF serviceMode THEN "svc" ELSE "top"
  /\ UNCHANGED << sleepMs, buffer, serviceMode, status, registered, el, file, procs,
                  snapshots, lastSet, late, quiet >>

\* Tamer_ServiceMain up to RegisterServiceCtrlHandler: the state becomes
\* SERVICE_START_PENDING, then the handler is registered or the call fails.
ServiceMain_Register ==
  /\ pc = "svc"
  /\ status' = "START_PENDING"
  /\ \E ok \in BOOLEAN :
       /\ registered' = ok
       /\ pc' = IF ok THEN "init" ELSE "exit"
  /\ UNCHANGED << heap, sleepMs, buffer, serviceMode, config, el, file, procs, retVal,
                  crc32, stage, oom, snapshots, lastSet, late, quiet >>

\* Tamer_ServiceMain after Tamer_ServiceInit (true in service mode): the
\* state becomes SERVICE_RUNNING.
ServiceMain_Running ==
  /\ pc = "init"
  /\ status' = "RUNNING"
  /\ pc' = "top"
  /\ UNCHANGED << heap, sleepMs, buffer, serviceMode, registered, config, el, file, procs,
                  retVal, crc32, stage, oom, snapshots, lastSet, late, quiet >>

\* A loop test that would never see a stop: what C14 rules out.
LoopTest_Always(mode, state) == mode = mode

\* The loop test: while ( dwCurrentState == SERVICE_RUNNING ) in service
\* mode, while ( 1 ) stand-alone.
LoopTest(mode, state) == ~mode \/ state = "RUNNING"

\* The loop test is evaluated: the next cycle begins or the loop ends.
Loop_Top ==
  /\ pc = "top"
  /\ pc' = IF LoopTest(serviceMode, status) THEN "process" ELSE "exit"
  /\ UNCHANGED << heap, sleepMs, buffer, serviceMode, status, registered, config, el, file, procs,
                  retVal, crc32, stage, oom, snapshots, lastSet, late, quiet >>

\* A Tamer_ServiceProcess that would return before every pass: what C16
\* rules out.
SkipsEnforcement_Always(ret, cfg) == ret = ret

\* The two early returns of Tamer_ServiceProcess: Tamer_ReadConfig() == 0,
\* gTamer.config == NULL || gTamer.config->procList == NULL.
SkipsEnforcement(ret, cfg) == ret = 0 \/ ~cfg.allocated \/ cfg.procList = <<>>

\* Tamer_ServiceProcess up to LL_FOREACH: Tamer_ReadConfig; return false
\* when it returns 0 or the list is empty.  The environment decides cfgAlloc
\* and pathOK only in a call that allocates the Tamer_Config or looks the
\* directory up.
ServiceProcess_Read ==
  /\ pc = "process"
  /\ \E in \in ReadInputs :
       LET r == Tamer_ReadConfig(config, serviceMode, file, in)
           skip == SkipsEnforcement(r.retVal, r.config)
           q == IF r.stage = "parsed" THEN 0 ELSE quiet
       IN  /\ in.cfgAlloc \/ ~config.allocated
           /\ in.pathOK \/ config.filePath = ""
           /\ config' = r.config
           /\ ReadLocals(r)
           /\ heap' = HeapForget(HeapAfter(heap, r.stage, file, in.nodes, FirstFit))
           /\ pc' = IF skip THEN "sleep" ELSE "enforce"
           /\ el' = IF skip THEN 0 ELSE 1
           /\ quiet' = IF skip THEN q ELSE IF q = 2 THEN 2 ELSE 1
  /\ snapshots' = 0
  /\ lastSet' = {}
  /\ late' = {}
  /\ sleepMs' = 0
  /\ UNCHANGED << buffer, serviceMode, status, registered, file, procs >>

\* Tamer_ServiceProcess up to LL_FOREACH, the operator saving another
\* content f2 after the digest was computed and before the keys are read.
\* In the loop the Tamer_Config is allocated and its path resolved, so the
\* call begins at the digest check.
ServiceProcess_ReadEdited ==
  /\ pc = "process"
  /\ config.allocated /\ config.filePath # ""
  /\ \E io \in BOOLEAN, nodes \in 0..(MaxIndex + 1), f2 \in Files \ {file} :
       LET in == [ cfgAlloc |-> TRUE, pathOK |-> TRUE, io |-> io, nodes |-> nodes ]
           r == ReadFromEdited(config, file, f2, in)
           skip == SkipsEnforcement(r.retVal, r.config)
           q == IF r.stage = "parsed" THEN 0 ELSE quiet
       IN  /\ config' = r.config
           /\ ReadLocals(r)
           /\ heap' = HeapForget(HeapAfter(heap, r.stage, f2, in.nodes, FirstFit))
           /\ file' = f2
           /\ pc' = IF skip THEN "sleep" ELSE "enforce"
           /\ el' = IF skip THEN 0 ELSE 1
           /\ quiet' = IF skip THEN q ELSE IF q = 2 THEN 2 ELSE 1
  /\ snapshots' = 0
  /\ lastSet' = {}
  /\ late' = {}
  /\ sleepMs' = 0
  /\ UNCHANGED << buffer, serviceMode, status, registered, procs >>

\* A traversal that would step over every other node: what C19 rules out.
NextRule_SkipOne(list, i) == IF i + 1 >= Len(list) THEN 0 ELSE i + 2

\* el = el->next of LL_FOREACH: the index of the next node, 0 for NULL.
NextRule(list, i) == IF i = Len(list) THEN 0 ELSE i + 1

\* One turn of LL_FOREACH: Tamer_SetProcessPriority(el), then el = el->next.
\* gone: the matching processes that exit between the snapshot and their
\* OpenProcess.
ServiceProcess_Enforce ==
  /\ pc = "enforce"
  /\ \E gone \in SUBSET {p \in Snapshot(procs) :
                           Matches(procs[p].name, config.procList[el].procName)} :
       LET proc == config.procList[el]
           last == el = Len(config.procList)
           q == IF gone = {} THEN quiet ELSE 0
       IN  /\ procs' = Tamer_SetProcessPriority(proc, procs, gone)
           /\ lastSet' = SetCalls(proc, procs, gone)
           /\ snapshots' = snapshots + 1
           /\ el' = NextRule(config.procList, el)
           /\ pc' = IF last THEN "sleep" ELSE "enforce"
           /\ late' = IF last THEN {} ELSE late \ gone
           /\ quiet' = IF last /\ q >= 1 THEN 2 ELSE q
  /\ UNCHANGED << heap, sleepMs, buffer, serviceMode, status, registered, config, file,
                  retVal, crc32, stage, oom >>

\* A sleep that would always last the default interval: what C15 rules out.
SleepTime_Default(cfg) == SRVC_TAME_INTERVAL

\* The argument of the loop's Sleep call: gTamer.config->interval
SleepTime(cfg) == cfg.interval

\* Sleep(gTamer.config->interval), then back to the loop test.  The step is
\* the whole call: pc = "sleep" from the return of Tamer_ServiceProcess
\* until Sleep returns.
Sleep ==
  /\ pc = "sleep"
  /\ pc' = "top"
  /\ sleepMs' = SleepTime(config)
  /\ retVal' = 0 /\ crc32' = ZeroCrc /\ stage' = "none" /\ oom' = FALSE
  /\ snapshots' = 0
  /\ lastSet' = {}
  /\ UNCHANGED << heap, buffer, serviceMode, status, registered, config, el, file, procs, late, quiet >>

(***************************************************************************)
(* The environment.                                                        *)
(***************************************************************************)
\* Tamer_ServiceControl(request), called by the service manager on its own
\* thread once the handler is registered: stop and shutdown set
\* SERVICE_STOPPED, any other request only reports the state.
Tamer_ServiceControl ==
  /\ serviceMode
  /\ registered
  /\ pc # "exit"
  /\ \E request \in {"STOP", "SHUTDOWN", "INTERROGATE"} :
       status' = IF request \in {"STOP", "SHUTDOWN"} THEN "STOPPED" ELSE status
  /\ UNCHANGED << heap, sleepMs, buffer, pc, serviceMode, registered, config, el, file, procs,
                  retVal, crc32, stage, oom, snapshots, lastSet, late, quiet >>

\* The operator edits, removes, locks or unlocks SrvcTame.ini.  Only
\* Tamer_ReadConfig reads the file, in main and in every cycle, so an edit
\* made outside a call shows as one made at the loop test before the next
\* call: those edits are taken there.  An edit that falls inside a call,
\* between its reads of the file, is ServiceProcess_ReadEdited.
FileChange ==
  /\ pc = "top"
  /\ \E f \in Files : f # file /\ file' = f
  /\ UNCHANGED << heap, sleepMs, buffer, pc, serviceMode, status, registered, config, el, procs,
                  retVal, crc32, stage, oom, snapshots, lastSet, late, quiet >>

\* A process starts, at normal priority, under a free id.
ProcStart ==
  /\ \E p \in Pids, k \in ProcKinds :
       /\ ~procs[p].alive
       /\ procs' = [procs EXCEPT ![p] =
                      [ alive |-> TRUE, name |-> k.name,
                        prio |-> NORMAL_PRIORITY_CLASS, access |-> k.access ]]
       /\ late' = IF pc = "enforce" /\ snapshots >= 1 THEN late \cup {p} ELSE late
  /\ quiet' = 0
  /\ UNCHANGED << heap, sleepMs, buffer, pc, serviceMode, status, registered, config, el, file,
                  retVal, crc32, stage, oom, snapshots, lastSet >>

\* A process exits.
ProcExit ==
  /\ \E p \in Pids :
       /\ procs[p].alive
       /\ procs' = [procs EXCEPT ![p] = DeadProc]
       /\ late' = late \ {p}
  /\ quiet' = 0
  /\ UNCHANGED << heap, sleepMs, buffer, pc, serviceMode, status, registered, config, el, file,
                  retVal, crc32, stage, oom, snapshots, lastSet >>

\* The daemon with the service manager, the operator and the host, the
\* file being edited between the calls of Tamer_ReadConfig.
Next ==
  \/ Main
  \/ ServiceMain_Register
  \/ ServiceMain_Running
  \/ Loop_Top
  \/ ServiceProcess_Read
  \/ ServiceProcess_Enforce
  \/ Sleep
  \/ Tamer_ServiceControl
  \/ FileChange
  \/ ProcStart
  \/ ProcExit

\* The daemon, the service manager and the operator editing the file, the
\* processes of the host being those of the start.
NextConfig ==
  \/ Main
  \/ ServiceMain_Register
  \/ ServiceMain_Running
  \/ Loop_Top
  \/ ServiceProcess_Read
  \/ ServiceProcess_Enforce
  \/ Sleep
  \/ Tamer_ServiceControl
  \/ FileChange

\* The daemon on a host whose processes come and go, the file staying as it
\* is at the start.
NextHost ==
  \/ Main
  \/ ServiceMain_Register
  \/ ServiceMain_Running
  \/ Loop_Top
  \/ ServiceProcess_Read
  \/ ServiceProcess_Enforce
  \/ Sleep
  \/ ProcStart
  \/ ProcExit

\* The daemon and the operator editing the file at any moment, a refresh
\* under way included.
NextEdit ==
  \/ Main
  \/ ServiceMain_Register
  \/ ServiceMain_Running
  \/ Loop_Top
  \/ ServiceProcess_Read
  \/ ServiceProcess_ReadEdited
  \/ ServiceProcess_Enforce
  \/ Sleep
  \/ FileChange

(***************************************************************************)
(* Tamer_CRC2 on its own: the end of Tamer_GetFileCRC, from the buffer     *)
(* filled by fread to the return, for byte sequences that need not be      *)
(* configuration files.                                                    *)
(***************************************************************************)
\* The ASCII bytes "123456789".
CheckString == << 49, 50, 51, 52, 53, 54, 55, 56, 57 >>

\* The bytes the buffer is filled with.
CrcBytesOfInput == {0, 49, 128, 255}

\* The contents of the buffer: every sequence of these bytes up to MaxLen,
\* and the test string "123456789".
CrcInputs == UNION {[1..n -> CrcBytesOfInput] : n \in 0..MaxLen} \cup {CheckString}

\* Tamer_GetFileCRC after fread: the buffer holds the bytes of the file.
InitCrc ==
  /\ pc = "crc"
  /\ buffer \in CrcInputs
  /\ serviceMode = FALSE
  /\ status = "ZERO"
  /\ registered = FALSE
  /\ config = NullConfig
  /\ el = 0
  /\ file = [ readable |-> TRUE, ini |-> EmptyIni ]
  /\ procs = [p \in Pids |-> DeadProc]
  /\ retVal = 0 /\ crc32 = ZeroCrc /\ stage = "none" /\ oom = FALSE
  /\ snapshots = 0 /\ lastSet = {} /\ late = {} /\ quiet = 0
  /\ sleepMs = 0
  /\ heap = EmptyHeap

\* crc32 = Tamer_CRC2(buffer, fileSize)
GetFileCRC_Compute ==
  /\ pc = "crc"
  /\ crc32' = Tamer_CRC2(buffer)
  /\ pc' = "crc_free"
  /\ UNCHANGED << heap, serviceMode, status, registered, config, el, file, procs, retVal,
                  stage, oom, snapshots, lastSet, late, sleepMs, buffer, quiet >>

\* free(buffer); return crc32
GetFileCRC_Return ==
  /\ pc = "crc_free"
  /\ buffer' = <<>>
  /\ pc' = "crc_return"
  /\ UNCHANGED << heap, serviceMode, status, registered, config, el, file, procs, retVal,
                  crc32, stage, oom, snapshots, lastSet, late, sleepMs, quiet >>

NextCrc ==
  \/ GetFileCRC_Compute
  \/ GetFileCRC_Return

Spec == Init /\ [][Next]_vars
SpecCrc == InitCrc /\ [][NextCrc]_vars
SpecConfig == Init /\ [][NextConfig]_vars
SpecHost == Init /\ [][NextHost]_vars
SpecEdit == Init /\ [][NextEdit]_vars

(***************************************************************************)
(* Properties of the refresh (Tamer_ReadConfig as the loop calls it).      *)
(***************************************************************************)
\* A step in which main or Tamer_ServiceProcess calls Tamer_ReadConfig.
ReadCall == pc \in {"main", "process"} /\ pc' # pc

\* The call Tamer_ServiceProcess makes at the head of a cycle.
ReadStep == pc = "process" /\ pc' # pc

\* The list is not empty: there is something to enforce.
Ready(cfg) == cfg.procList # <<>>

\* What a refresh publishes: the list, the digest and the three settings.
Published(cfg) ==
  << cfg.procList, cfg.crc32, cfg.serviceDispalyName, cfg.serviceDescription,
     cfg.interval >>

\* The number of rules the file defines without a gap: rules 1..k have a
\* name and rule k + 1 has none.
RuleCount(f) ==
  CHOOSE k \in 0..MaxIndex :
    /\ \A i \in 1..k : Len(ProcessName(f, i)) > 0
    /\ Len(ProcessName(f, k + 1)) = 0

\* Rule i as the file gives it.
SourceRule(f, i) == [ procName |-> ProcessName(f, i), priority |-> ProcessPrio(f, i) ]

\* Whether list holds exactly the rules 1..n of the file, in order.
IsRules(list, f, n) ==
  /\ Len(list) = n
  /\ \A i \in 1..n : list[i] = SourceRule(f, i)

\* The file has a rule above its first gap.
RuleAfterGap(f) ==
  \E i \in (RuleCount(f) + 2)..MaxIndex : Len(ProcessName(f, i)) > 0

\* The digest the call computed is a real one and differs from the stored one.
DigestChanged == crc32' # ZeroCrc /\ crc32' # config.crc32

\* C1, as the specification states it: when the daemon has rules, the
\* digest of the file has changed and the file now defines no rule, the
\* refresh leaves the list, the stored digest and the settings as they
\* were, so the daemon never goes from having rules to having none.
\* The code refutes it: the settings are overwritten, the list is freed
\* and the new digest is stored before the rules are parsed.
C1_EmptyParseKeepsConfig ==
  [][ (ReadStep /\ Ready(config) /\ DigestChanged /\ RuleCount(file) = 0 /\ ~oom')
        => (Published(config') = Published(config) /\ Ready(config')) ]_vars

\* C2: when the file cannot be read (Tamer_GetFileCRC gives 0) the call
\* returns 0 and leaves the list, the stored digest and the three settings
\* unchanged.
C2_UnreadableKeepsConfig ==
  [][ (ReadCall /\ (~file.readable \/ crc32' = ZeroCrc))
        => (retVal' = 0 /\ Published(config') = Published(config)) ]_vars

\* C2's case has happened: the daemon had rules, the read of an unreadable
\* file failed and the rules are still there.
C2_Witness ==
  /\ pc = "sleep"
  /\ stage = "nofile"
  /\ ~file.readable
  /\ retVal = 0
  /\ Ready(config)

\* C3, as the specification states it: when the daemon has rules and the
\* read fails, the enforcement of the same cycle still runs over the
\* retained list.  The code refutes it: Tamer_ServiceProcess returns as soon
\* as Tamer_ReadConfig returns 0.
C3_FailedReadStillEnforces ==
  [][ (ReadStep /\ Ready(config) /\ stage' = "nofile") => pc' = "enforce" ]_vars

\* C4: when the digest computed equals the stored one the call does not
\* parse and changes nothing; it returns the length of the list it keeps.
C4_SameDigestNoChange ==
  [][ (ReadCall /\ crc32' # ZeroCrc /\ crc32' = config.crc32)
        => (stage' = "same" /\ config' = config /\ retVal' = Len(config.procList)) ]_vars

\* C4's case has happened: a cycle found the digest unchanged and went on
\* to enforce the list it already had.
C4_Witness ==
  /\ pc = "enforce"
  /\ stage = "same"
  /\ crc32 = config.crc32
  /\ crc32 # ZeroCrc
  /\ snapshots = 0

SameNameNoCase(a, b) ==
  /\ Len(a) = Len(b)
  /\ \A i \in 1..Len(a) : ToLower(a[i]) = ToLower(b[i])

\* A whole pass has just ended, and neither the processes nor the list
\* changed while it ran.
PassDone == pc = "sleep" /\ snapshots >= 1 /\ quiet = 2

\* C6, as the specification states it: after a pass, every live process
\* that matches a rule, can be opened and lets its priority be set has the
\* priority that rule configures.  The code refutes it: the walk never
\* reads proc->priority and sets IDLE_PRIORITY_CLASS whatever the rule says.
C6_ConfiguredPriorityApplied ==
  PassDone =>
    \A p \in Pids, i \in 1..Len(config.procList) :
      (procs[p].alive /\ procs[p].access = "ok"
         /\ SameNameNoCase(procs[p].name, config.procList[i].procName))
        => procs[p].prio = config.procList[i].priority

\* C7: a step changes the priority of a live process only while the walk of
\* a rule runs, and only when the name of the process equals the name of
\* that rule up to the case of the letters.
C7_UnmatchedNeverTouched ==
  [][ \A p \in Pids :
        (procs[p].alive /\ procs'[p].alive /\ procs'[p].prio # procs[p].prio)
          => /\ pc = "enforce"
             /\ SameNameNoCase(procs[p].name, config.procList[el].procName) ]_vars

\* C7's case has happened: a pass over a list naming "fo" has set the
\* priority of a process "FO", and a process "f" started at normal priority
\* still has it.
C7_Witness ==
  /\ PassDone
  /\ \E i \in 1..Len(config.procList) : config.procList[i].procName = NameFo
  /\ \E p \in Pids :
       procs[p].alive /\ procs[p].name = NameFO /\ procs[p].prio = IDLE_PRIORITY_CLASS
  /\ \E p \in Pids :
       procs[p].alive /\ procs[p].name = NameF /\ procs[p].prio = NORMAL_PRIORITY_CLASS

\* A walk of a pass that follows a whole pass, with no change of the
\* processes or of the list since that pass began.
SecondPassWalk == pc = "enforce" /\ quiet = 2 /\ quiet' = 2

\* C9, as the specification states it: the second of two passes with no
\* change between them calls SetPriorityClass on no process.
C9_Original ==
  [][ SecondPassWalk => lastSet' = {} ]_vars

\* C9, amended: the second of two passes with no change between them calls
\* SetPriorityClass only on processes that refuse the call, which the first
\* pass left at the priority they had; on every other process it makes no
\* call.
C9_SecondPassSetsOnlyRefusing ==
  [][ SecondPassWalk
        => \A p \in lastSet' : procs[p].access = "noset" /\ procs'[p] = procs[p] ]_vars

\* C9's case has happened: the first walk of a second pass has found a
\* process it had tamed in the pass before and has made no call.
C9_Witness ==
  /\ pc = "enforce"
  /\ quiet = 2
  /\ snapshots = 1
  /\ lastSet = {}
  /\ \E p \in Pids :
       /\ procs[p].alive
       /\ procs[p].access = "ok"
       /\ SameNameNoCase(procs[p].name, config.procList[1].procName)
       /\ procs[p].prio = IDLE_PRIORITY_CLASS

\* C10, as the specification states it: a pass takes one snapshot, and a
\* process started after the snapshot is not adjusted before the next pass.
\* The code refutes it: every rule's walk takes a snapshot of its own, so a
\* pass over n rules takes n of them and a later rule's walk adjusts a
\* process started after the first.
C10_OneSnapshotPerPass ==
  [][ pc = "enforce" => (snapshots' <= 1 /\ lastSet' \cap late = {}) ]_vars

\* The walk of one rule: a turn of LL_FOREACH.
EnforceStep == pc = "enforce" /\ snapshots' = snapshots + 1

\* C11: in the walk of a rule, every process that matches the rule, can be
\* opened, accepts the change and has not exited ends the walk at
\* IDLE_PRIORITY_CLASS, whatever happens to the other entries (an entry
\* that cannot be opened or has exited is only skipped); and the pass goes
\* on to the next rule, or to the sleep after the last one.
C11_FailureSkipsOnlyThatProcess ==
  [][ EnforceStep
        => /\ \A p \in Pids :
                (/\ procs[p].alive
                 /\ SameNameNoCase(procs[p].name, config.procList[el].procName)
                 /\ procs[p].access = "ok"
                 /\ procs'[p].alive)
                  => procs'[p].prio = IDLE_PRIORITY_CLASS
           /\ pc' = IF el < Len(config.procList) THEN "enforce" ELSE "sleep"
           /\ el' = IF el < Len(config.procList) THEN el + 1 ELSE 0 ]_vars

\* C11's case has happened: a walk has just called SetPriorityClass on a
\* process "FO" and tamed it, while another process "FO", which cannot be
\* opened, still runs at normal priority.
C11_Witness ==
  /\ snapshots >= 1
  /\ \E p \in lastSet :
       /\ procs[p].alive /\ procs[p].name = NameFO
       /\ procs[p].prio = IDLE_PRIORITY_CLASS
       /\ \E q \in Pids \ {p} :
            /\ procs[q].alive /\ procs[q].name = NameFO
            /\ procs[q].access = "noopen"
            /\ procs[q].prio = NORMAL_PRIORITY_CLASS
            /\ q < p

(***************************************************************************)
(* Properties of the loop (main, Tamer_ServiceMain, Tamer_ServiceProcess). *)
(***************************************************************************)
\* The exits of Tamer_ReadConfig that are errors.
ReadFailed(st) == st \in {"nomem", "nopath", "nofile"}

\* C12, as the specification states it: no outcome of a refresh that keeps
\* the daemon without a usable result (a read error, a parse that finds no
\* rule, an unchanged digest over an empty list) ends execution; only a stop
\* signal does.  The code refutes it at start-up: main returns EXIT_FAILURE
\* when its first Tamer_ReadConfig returns 0.
C12_ErrorsNeverEndExecution ==
  [][ (ReadCall /\ retVal' = 0 /\ stage' \in {"nofile", "parsed", "same"})
        => pc' # "exit" ]_vars

\* C13, as the specification states it: while the list is empty, a refresh
\* that fails because the file cannot be read leaves it empty, skips the enforcement and goes to the sleep
\* that precedes the retry.  The code refutes it at start-up, where the
\* failed refresh ends the program instead.
C13_IdleFailureSleepsAndRetries ==
  [][ (ReadCall /\ ~Ready(config) /\ stage' = "nofile")
        => (~Ready(config') /\ pc' = "sleep") ]_vars

SleepStep == pc = "sleep" /\ pc' # pc

\* The interval the file gives: its Interval key, or the default.
FileInterval(f) == GetPrivateProfileInt(f, f.ini.interval, SRVC_TAME_INTERVAL)

\* C15: the sleep of a cycle lasts the interval the configuration holds
\* when the sleep begins; when the refresh of the cycle has parsed the file,
\* that is the interval of the file just read; and the configuration does
\* not change between the end of the refresh and the end of the sleep.
C15_SleepUsesCurrentInterval ==
  [][ /\ SleepStep => (sleepMs' = config.interval /\ pc' = "top")
      /\ (SleepStep /\ stage = "parsed") => sleepMs' = FileInterval(file)
      /\ (ReadStep /\ stage' = "parsed") => config'.interval = FileInterval(file)
      /\ (pc \in {"enforce", "sleep"}) => config' = config ]_vars

\* C15's case has happened: a sleep has lasted the interval of the file, not
\* the default one.
C15_Witness ==
  /\ pc = "top"
  /\ sleepMs = 1000
  /\ config.interval = 1000
  /\ FileInterval(file) = 1000

\* C16: when the daemon has rules and the refresh of a cycle finds the
\* digest unchanged, the cycle goes on to enforce the list it had, from its
\* first rule; and when the sleep of such a cycle begins, each rule of that
\* list has been walked exactly once.
C16_UnchangedSourceOnePass ==
  [][ /\ (ReadStep /\ Ready(config) /\ stage' = "same")
           => (pc' = "enforce" /\ el' = 1 /\ snapshots' = 0 /\ config' = config)
      /\ (SleepStep /\ Ready(config) /\ stage = "same")
           => snapshots = Len(config.procList) ]_vars

\* C16's case has happened: a cycle that found the digest unchanged has
\* walked both rules of its list and stands before its sleep.
C16_Witness ==
  /\ pc = "sleep"
  /\ stage = "same"
  /\ Len(config.procList) = 2
  /\ snapshots = 2
  /\ file.readable
  /\ config.crc32 = BufferCrc(file.ini)

(***************************************************************************)
(* Properties of the digest (Tamer_CRC2).                                  *)
(***************************************************************************)
\* The bits of a register in the opposite order.
Reflect(a) == SubSeq([i \in 1..Len(a) |-> a[Len(a) + 1 - i]], 1, Len(a))

\* a << 1
Shl1(a) == SubSeq(a, 2, 32) \o <<0>>

\* The generator of CRC-32/IEEE in its normal form, 0x04C11DB7.
PolyNormal == Reg32(1217, 7607)

RECURSIVE RefBits(_, _)
\* n turns of the division, most significant bit first.
RefBits(reg, n) ==
  IF n = 0 THEN reg
  ELSE LET r == RefBits(reg, n - 1)
       IN  IF r[1] = 1 THEN Xor32(Shl1(r), PolyNormal) ELSE Shl1(r)

RECURSIVE RefBytes(_, _, _)
\* The register after the bytes data[i..]: each byte enters reflected, at
\* the top of the register.
RefBytes(reg, data, i) ==
  IF i > Len(data) THEN reg
  ELSE LET top == Reflect(BitsOf(data[i], 8)) \o BitsOf(0, 24)
           next == RefBits(Xor32(reg, top), 8)
       IN  IF Len(next) = 32 THEN RefBytes(next, data, i + 1) ELSE next

\* CRC-32/IEEE as its parameters define it: polynomial 0x04C11DB7, initial
\* register 0xFFFFFFFF, input and output reflected, final xor 0xFFFFFFFF.
Crc32Ieee(data) == Halves(Not32(Reflect(RefBytes(AllOnes, data, 1))))

\* C17: the digest Tamer_CRC2 computes is the CRC-32/IEEE of the bytes and
\* of nothing else, a value below 2^32; it is 0x00000000 for no bytes and
\* 0xCBF43926 for "123456789".
C17_DigestIsCrc32Ieee ==
  (pc = "crc_free")
    => /\ crc32 = Crc32Ieee(buffer)
       /\ crc32[1] \in 0..65535 /\ crc32[2] \in 0..65535
       /\ (buffer = <<>> => crc32 = <<0, 0>>)
       /\ (buffer = CheckString => crc32 = <<52212, 14630>>)

\* C17's case has happened: the digest of "123456789" has been computed.
C17_Witness ==
  /\ pc = "crc_free"
  /\ buffer = CheckString
  /\ crc32 = <<52212, 14630>>

\* C18: a call that computes the digest 0 ends as a failure, returns 0 and
\* leaves the stored digest and the list alone (it neither compares nor
\* parses); the stored digest changes only in a call that parses, and never
\* to 0, so that once it is not 0 it never is again.
C18_ZeroDigestNeverStored ==
  [][ /\ (ReadCall /\ crc32' = ZeroCrc)
           => /\ ReadFailed(stage')
              /\ retVal' = 0
              /\ config'.crc32 = config.crc32
              /\ config'.procList = config.procList
      /\ (config'.crc32 # config.crc32)
           => (ReadCall /\ stage' = "parsed" /\ config'.crc32 # ZeroCrc)
      /\ (config.crc32 # ZeroCrc => config'.crc32 # ZeroCrc) ]_vars

\* C18's case has happened: the file is readable but empty, its digest is 0,
\* the call has failed and the digest stored before is still there.
C18_Witness ==
  /\ pc = "sleep"
  /\ stage = "nofile"
  /\ file.readable
  /\ FileBytes(file.ini) = <<>>
  /\ crc32 = ZeroCrc
  /\ config.crc32 # ZeroCrc

\* C19: the steps of a cycle follow one another as refresh, walks of the
\* rules first to last, sleep, loop test; the list changes only in a
\* Tamer_ReadConfig call, and nothing of the configuration changes while a
\* pass is under way, so that a pass walks the list its refresh left, every
\* rule once and in order.
C19_CyclesOrderedListStable ==
  [][ /\ (config'.procList # config.procList) => ReadCall
      /\ (pc = "enforce")
           => /\ config' = config
              /\ el \in 1..Len(config.procList)
      /\ ReadStep
           => /\ pc' \in {"enforce", "sleep"}
              /\ (pc' = "enforce") => (el' = 1 /\ Ready(config') /\ snapshots' = 0)
      /\ EnforceStep
           => IF el < Len(config.procList)
              THEN pc' = "enforce" /\ el' = el + 1
              ELSE pc' = "sleep" /\ snapshots' = Len(config.procList)
      /\ (pc = "enforce" /\ pc' # pc) => EnforceStep
      /\ SleepStep => pc' = "top"
      /\ (pc = "top" /\ pc' # pc) => pc' \in {"process", "exit"} ]_vars

\* C19's case has happened: a cycle has parsed a list of two rules and has
\* walked both.
C19_Witness ==
  /\ pc = "sleep"
  /\ stage = "parsed"
  /\ Len(config.procList) = 2
  /\ snapshots = 2
  /\ el = 0

\* C20: a call that gets a digest other than 0 either finds it unchanged or
\* parses, and in both cases returns the length of the list the
\* configuration then holds; a call that fails returns 0; and a call
\* returns 0 only when it fails or when that list is empty.
C20_ReturnsRuleCount ==
  [][ ReadCall
        => /\ (crc32' # ZeroCrc) => stage' \in {"same", "parsed"}
           /\ (stage' \in {"same", "parsed"}) => retVal' = Len(config'.procList)
           /\ ReadFailed(stage') => retVal' = 0
           /\ (retVal' = 0) => (ReadFailed(stage') \/ config'.procList = <<>>) ]_vars

\* C20's case has happened: a call that found the digest unchanged has
\* returned 2, the length of the list.
C20_Witness ==
  /\ pc = "enforce"
  /\ stage = "same"
  /\ retVal = 2
  /\ Len(config.procList) = 2
  /\ snapshots = 0

\* The value the file gives a setting, or the default when the key is absent.
FileSetting(f, v, default) == IF v # NoString THEN v ELSE default

\* C21: a parse never fails for an absent optional key. The display name,
\* the description and the interval become those of the file, or "Process
\* Tamer", "Windows process taming service" and 10000 when the file has
\* none; a rule without Process{N}_Prio gets priority 0; and the call
\* returns 0 exactly when it has loaded no rule, which, no allocation
\* having failed, is when the file defines no rule 1.
C21_OptionalKeysDefault ==
  [][ (ReadCall /\ stage' = "parsed") =>
        /\ config'.serviceDispalyName =
             FileSetting(file, file.ini.disp, SRVC_TAME_SERVICE_DISPLAY_NAME)
        /\ config'.serviceDescription =
             FileSetting(file, file.ini.desc, SRVC_TAME_SERVICE_DESCRIPTION)
        /\ config'.interval =
             (IF file.ini.interval # NoInt THEN file.ini.interval ELSE 10000)
        /\ \A i \in 1..Len(config'.procList) :
             /\ config'.procList[i].procName = file.ini.name[i]
             /\ config'.procList[i].priority =
                  (IF file.ini.prio[i] # NoInt THEN file.ini.prio[i] ELSE 0)
        /\ (retVal' = 0) = (config'.procList = <<>>)
        /\ ~oom' => ((retVal' = 0) = (file.ini.name[1] = NoString)) ]_vars

\* C21's case has happened: a file with a rule and none of the optional keys
\* has been loaded with every default.
C21_Witness ==
  /\ stage = "parsed" /\ retVal = 1 /\ ~oom
  /\ file.ini.disp = NoString /\ file.ini.desc = NoString
  /\ file.ini.interval = NoInt /\ file.ini.prio[1] = NoInt
  /\ config.procList = << [ procName |-> NameB, priority |-> 0 ] >>
  /\ config.interval = 10000
  /\ Len(config.serviceDispalyName) = 13
  /\ Len(config.serviceDescription) = 30

\* The only report of a walk the program has ever made: the bool the older
\* Tamer_SetProcessPriority returns (the newer one is void), set to true as
\* soon as SetPriorityClass has been called on an entry, whatever the call
\* answered.
Applied(setCalls) == setCalls # {}

\* C22, as the specification states it: a walk reports a correction as
\* applied only if a priority-set operation succeeded, that is, only if some
\* process it called SetPriorityClass on now runs at the target priority.
\* The code refutes it: the result of SetPriorityClass is never read, so the
\* walk of a process that refuses the change reports it as applied.
C22_AppliedOnlyIfSetSucceeded ==
  [][ (EnforceStep /\ Applied(lastSet'))
        => \E p \in lastSet' :
             /\ procs[p].prio # IDLE_PRIORITY_CLASS
             /\ procs'[p].prio = IDLE_PRIORITY_CLASS ]_vars

C24_DigestMatchesParsedBytes ==
  [][ ReadStep =>
        /\ (stage' = "parsed")
             => (file'.readable /\ config'.crc32 = BufferCrc(file'.ini))
        /\ (file'.readable /\ config'.crc32 = BufferCrc(file'.ini))
             => IsRules(config'.procList, file', RuleCount(file')) ]_vars

(***************************************************************************)
(* Tamer_ReadConfig on its own, called again and again on a file that      *)
(* changes between the calls, the allocator returning whatever free        *)
(* block it likes.                                                         *)
(***************************************************************************)
\* The states of the file between the calls: unreadable, or readable with
\* the rules it has all named "fo".
HeapFiles ==
  {f \in Files : \A i \in 1..MaxIndex : f.ini.name[i] \in {NoString, NameFo}}

InitHeap ==
  /\ pc = "heap_call"
  /\ serviceMode = FALSE
  /\ status = "ZERO"
  /\ registered = FALSE
  /\ config = NullConfig
  /\ el = 0
  /\ file \in HeapFiles
  /\ procs = [p \in Pids |-> DeadProc]
  /\ retVal = 0 /\ crc32 = ZeroCrc /\ stage = "none" /\ oom = FALSE
  /\ snapshots = 0 /\ lastSet = {} /\ late = {} /\ quiet = 0
  /\ sleepMs = 0
  /\ buffer = <<>>
  /\ heap = EmptyHeap

\* One call of Tamer_ReadConfig.  malloc never returns a block that is
\* still live.
Heap_ReadConfig ==
  /\ pc = "heap_call"
  /\ \E in \in ReadInputs :
       LET r == Tamer_ReadConfig(config, serviceMode, file, in)
       IN  /\ in.cfgAlloc \/ ~config.allocated
           /\ in.pathOK \/ config.filePath = ""
           /\ config' = r.config
           /\ ReadLocals(r)
           /\ \E addrs \in (IF r.stage = "parsed" THEN AddrOrders ELSE {FirstFit}) :
                LET h == HeapAfter(heap, r.stage, file, in.nodes, addrs)
                IN  /\ \A i \in 1..Len(h.fresh) :
                         h.fresh[i] \notin ReleaseProcList(heap).live
                    /\ heap' = h
  /\ pc' = "heap_done"
  /\ UNCHANGED << sleepMs, buffer, serviceMode, status, registered, el, file, procs,
                  snapshots, lastSet, late, quiet >>

\* Between two calls the operator leaves the file as it is or changes it;
\* the locals of the call that has returned are gone.
Heap_Edit ==
  /\ pc = "heap_done"
  /\ \E f \in HeapFiles : file' = f
  /\ pc' = "heap_call"
  /\ retVal' = 0 /\ crc32' = ZeroCrc /\ stage' = "none" /\ oom' = FALSE
  /\ heap' = HeapForget(heap)
  /\ UNCHANGED << sleepMs, buffer, serviceMode, status, registered, config, el,
                  procs, snapshots, lastSet, late, quiet >>

NextHeap ==
  \/ Heap_ReadConfig
  \/ Heap_Edit

SpecHeap == InitHeap /\ [][NextHeap]_vars

\* The addresses of a sequence of blocks.
Blocks(seq) == {seq[i] : i \in 1..Len(seq)}

\* How many times a is in seq.
Times(seq, a) == Cardinality({i \in 1..Len(seq) : seq[i] = a})

\* C25: free is never given a block that is not live; the nodes of the
\* list are live blocks, one per rule, no block twice, and no other block is
\* live; a call that does not parse frees and allocates nothing and leaves
\* the list as it is; a call that parses gives every node of the list it
\* supersedes to free exactly once, frees besides at most the block it
\* allocated last and did not append, and leaves a list that holds only
\* blocks it allocated itself.
C25_SupersededNodesFreedOnce ==
  [][ (pc = "heap_call" /\ pc' = "heap_done") =>
        /\ ~heap'.bad
        /\ Blocks(heap'.list) = heap'.live
        /\ Len(heap'.list) = Len(config'.procList)
        /\ \A a \in Addrs : Times(heap'.list, a) <= 1
        /\ (stage' # "parsed")
             => (heap'.list = heap.list /\ heap'.freed = <<>> /\ heap'.fresh = <<>>)
        /\ (stage' = "parsed")
             => /\ Len(heap'.freed) \in {Len(heap.list), Len(heap.list) + 1}
                /\ \A i \in 1..Len(heap.list) : heap'.freed[i] = heap.list[i]
                /\ (Len(heap'.freed) = Len(heap.list) + 1)
                     => /\ heap'.freed[Len(heap'.freed)] = heap'.fresh[Len(heap'.fresh)]
                        /\ heap'.freed[Len(heap'.freed)] \notin Blocks(heap'.list)
                /\ \A a \in Addrs : Times(heap'.fresh, a) <= 1
                /\ Blocks(heap'.list) \subseteq Blocks(heap'.fresh) ]_vars

\* C25's case has happened: a parse has superseded a list of two nodes,
\* has freed both, and has left a list of one node it allocated itself at
\* the address the second node had.
C25_Witness ==
  /\ pc = "heap_done"
  /\ stage = "parsed"
  /\ Len(heap.freed) >= 2
  /\ heap.freed[1] # heap.freed[2]
  /\ Len(heap.list) = 1
  /\ heap.list[1] = heap.freed[2]
  /\ heap.live = {heap.list[1]}
  /\ heap.list[1] \in Blocks(heap.fresh)
  /\ ~heap.bad

\* C26: from the moment main has passed its first Tamer_ReadConfig, and so
\* at every Sleep(gTamer.config->interval) of the loop, gTamer.config is not
\* NULL, whether the refresh of the cycle succeeded or not.
C26_ConfigAllocatedInLoop ==
  (pc \in {"svc", "init", "top", "process", "enforce", "sleep"}) => config.allocated

\* C26's case has happened: the refresh of a cycle has failed and the loop
\* is about to read gTamer.config->interval for its sleep.
C26_Witness ==
  /\ pc = "sleep"
  /\ ReadFailed(stage)
  /\ retVal = 0
  /\ config.allocated
  /\ config.interval > 0

\* C27, as the specification states it: once a stop or shutdown control has
\* set SERVICE_STOPPED, no step of the service thread writes another state
\* over it.  The code refutes it: the handler is registered before
\* Tamer_ServiceMain writes SERVICE_RUNNING, and that write is
\* unconditional, so a stop handled in between is overwritten and the loop
\* starts as if no stop had come.
C27_StopNeverOverwritten ==
  [][ (status = "STOPPED") => (status' = "STOPPED") ]_vars

====
